---- MODULE Spec2Model ----
(***************************************************************************)
(* Model of the CHIP-8 machine of chip-8/chip8.h: the Chip8 object built   *)
(* by its constructor and its one public operation, LoadROM.  The state is *)
(* the object's data members plus the observable result of the last        *)
(* LoadROM call (what was thrown, what left the call, what was written).   *)
(***************************************************************************)
EXTENDS Integers, Sequences, FiniteSets

(* ------------------------------------------------------------------ *)
(* Program constants (chip8.h, region Definitions and region Fonts)    *)
(* ------------------------------------------------------------------ *)
MEMORY_FOOTPRINT == 4096

STACK_SIZE == 16

CHIP8_DISPAY_WIDTH == 64

CHIP8_DISPLAY_HEIGHT == 32

\* 0x200
ROOT_REGISTER_ADDRESS == 512

FONT_SET_SIZE_BYTES == 80

\* 0x50
FONT_SET_START_ADDRESS == 80

FONT_SET ==
    << 240, 144, 144, 144, 240,
        32,  96,  32,  32, 112,
       240,  16, 240, 128, 240,
       240,  16, 240,  16, 240,
       144, 144, 240,  16,  16,
       240, 128, 240,  16, 240,
       240, 128, 240, 144, 240,
       240,  16,  32,  64,  64,
       240, 144, 240, 144, 240,
       240, 144, 240,  16, 240,
       240, 144, 240, 144, 144,
       224, 144, 224, 144, 224,
       240, 128, 128, 128, 240,
       224, 144, 144, 144, 224,
       240, 128, 240, 128, 240,
       240, 128, 240, 128, 128 >>

(* ------------------------------------------------------------------ *)
(* Bounds of the model: the ROM files LoadROM is called with           *)
(* ------------------------------------------------------------------ *)
\* files of up to MEMORY_FOOTPRINT + MaxOver bytes
MaxOver == 1

\* number of distinct byte patterns per file length
NumPatterns == 2

\* the largest image that fits between the program origin and the end of memory
ProgramCapacity == MEMORY_FOOTPRINT - ROOT_REGISTER_ADDRESS

\* file lengths on both sides of every comparison made on the length
Sizes ==
    {0, 1, ProgramCapacity, ProgramCapacity + 1}
      \cup (MEMORY_FOOTPRINT..(MEMORY_FOOTPRINT + MaxOver))

\* byte i (1-based) of the file with pattern p
PatternByte(i, p) == ((i - 1) * 7 + 97 * p) % 256

Image(n, p) == [i \in 1..n |-> PatternByte(i, p)]

\* what the path names: no openable file, or a file with these bytes
Files ==
    {[exists |-> FALSE, bytes |-> <<>>]}
      \cup {[exists |-> TRUE, bytes |-> Image(n, p)] : n \in Sizes, p \in 1..NumPatterns}

(* ------------------------------------------------------------------ *)
(* State                                                               *)
(* ------------------------------------------------------------------ *)
VARIABLES
    memory,          \* _memory
    registers,       \* _registers
    indexRegister,   \* _indexRegister
    programCounter,  \* _programCounter
    stackPointer,    \* _stackPointer
    stack,           \* _stack
    displayMemory,   \* _displayMemory
    delayTimer,      \* _delayTimer
    soundTimer,      \* _soundTimer
    opcode,          \* _opcode
    file,            \* the file named by the argument of the last LoadROM call
    outcome,         \* "constructed", "not_open", "loaded" or "threw"
    thrown,          \* the exception thrown inside the try block of the last call
    escaped,         \* the dynamic type of the exception that left the last call
    written          \* the offsets from _memory[0] written by the last call

machine ==
    << memory, registers, indexRegister, programCounter, stackPointer, stack,
       displayMemory, delayTimer, soundTimer, opcode >>

vars ==
    << memory, registers, indexRegister, programCounter, stackPointer, stack,
       displayMemory, delayTimer, soundTimer, opcode,
       file, outcome, thrown, escaped, written >>

Addresses == 0..(MEMORY_FOOTPRINT - 1)

(* ------------------------------------------------------------------ *)
(* Chip8::Chip8                                                        *)
(* ------------------------------------------------------------------ *)
\* Memory _memory{}
ZeroMemory == [a \in Addresses |-> 0]

\* Registers _registers{}
Registers_uninitialised == [r \in 0..15 |-> 205]

ZeroRegisters == [r \in 0..15 |-> 0]

\* Stack _stack{}
ZeroStack == [s \in 0..(STACK_SIZE - 1) |-> 0]

\* DisplayMemory _displayMemory{}
ZeroDisplay == [c \in 0..(CHIP8_DISPAY_WIDTH * CHIP8_DISPLAY_HEIGHT - 1) |-> 0]

\* _programCounter{ ROOT_REGISTER_ADDRESS } in the constructor's initialiser list
InitialProgramCounter == ROOT_REGISTER_ADDRESS

\* the constructor's loop, from iteration i on:
\*   for (i = 0; i < FONT_SET_SIZE_BYTES; i++) _memory[FONT_SET_START_ADDRESS + 1] = FONT_SET[i];
RECURSIVE LoadFontSet(_, _)
LoadFontSet(mem, i) ==
    IF i < FONT_SET_SIZE_BYTES
    THEN LoadFontSet([mem EXCEPT ![FONT_SET_START_ADDRESS + 1] = FONT_SET[i + 1]], i + 1)
    ELSE mem

Init ==
    /\ memory = LoadFontSet(ZeroMemory, 0)
    /\ registers = ZeroRegisters
    /\ indexRegister = 0
    /\ programCounter = InitialProgramCounter
    /\ stackPointer = 0
    /\ stack = ZeroStack
    /\ displayMemory = ZeroDisplay
    /\ delayTimer = 0
    /\ soundTimer = 0
    /\ opcode = 0
    /\ file = [exists |-> FALSE, bytes |-> <<>>]
    /\ outcome = "constructed"
    /\ thrown = "none"
    /\ escaped = "none"
    /\ written = {}

(* ------------------------------------------------------------------ *)
(* Chip8::LoadROM                                                      *)
(* ------------------------------------------------------------------ *)
\* the throw statements of the try block, for contentSize = stream.tellg()
Thrown(contentSize) ==
    IF contentSize <= 0 THEN "RomNoDataError"
    ELSE IF contentSize > MEMORY_FOOTPRINT THEN "RomTooLargeError"
    ELSE "none"

\* catch (const std::exception &e) { ...; throw e; }: the exception object is
\* copy-initialised from the static type of e, so the derived part is sliced off
Rethrown(e) == IF e = "none" THEN "none" ELSE "std::exception"

\* the offset from _memory[0] of the destination reinterpret_cast<char *>(&_memory)
ReadDestination_origin == ROOT_REGISTER_ADDRESS

ReadDestination == 0

\* the offsets stream.read (dest, n) writes
ReadOffsets(n) == ReadDestination..(ReadDestination + n - 1)

\* stream.seekg (0, beg); stream.read (reinterpret_cast<char *>(&_memory), n)
StreamRead_cleared(mem, bytes, n) ==
    [a \in Addresses |->
        IF a \in ReadOffsets(n) THEN bytes[a - ReadDestination + 1] ELSE 0]

StreamRead(mem, bytes, n) ==
    [a \in Addresses |->
        IF a \in ReadOffsets(n) THEN bytes[a - ReadDestination + 1] ELSE mem[a]]

\* _memory when the try block is left, normally or by a throw
TryBlock_readFirst(mem, bytes) ==
    IF Len(bytes) <= MEMORY_FOOTPRINT
    THEN StreamRead(mem, bytes, Len(bytes))
    ELSE StreamRead(mem, bytes, MEMORY_FOOTPRINT)

TryBlock(mem, bytes) ==
    IF Thrown(Len(bytes)) = "none"
    THEN StreamRead(mem, bytes, Len(bytes))
    ELSE mem

LoadROM(f) ==
    /\ file' = f
    /\ IF ~f.exists
       THEN \* "Could not open stream." and return
            /\ outcome' = "not_open"
            /\ thrown' = "none"
            /\ escaped' = "none"
            /\ written' = {}
            /\ memory' = memory
       ELSE LET contentSize == Len(f.bytes)
                e == Thrown(contentSize)
            IN  /\ thrown' = e
                /\ escaped' = Rethrown(e)
                /\ outcome' = IF e = "none" THEN "loaded" ELSE "threw"
                /\ written' = IF e = "none" THEN ReadOffsets(contentSize) ELSE {}
                /\ memory' = TryBlock(memory, f.bytes)
    /\ UNCHANGED << registers, indexRegister, programCounter, stackPointer, stack,
                    displayMemory, delayTimer, soundTimer, opcode >>

Next == \E f \in Files : LoadROM(f)

Spec == Init /\ [][Next]_vars

(* ------------------------------------------------------------------ *)
(* Properties of construction and of LoadROM                           *)
(* ------------------------------------------------------------------ *)
\* the last call was given an openable file of n bytes
CalledWith(n) == outcome # "constructed" /\ file.exists /\ Len(file.bytes) = n

LastSize == Len(file.bytes)

\* C1: for every image of S bytes, 0 < S <= 3584, the call succeeds and
\* memory[0x200 + i] is image byte i for every i in 0..S-1.
C1_ImageAtProgramOrigin ==
    (outcome # "constructed" /\ file.exists /\ LastSize \in 1..ProgramCapacity)
        => /\ outcome = "loaded"
           /\ \A i \in 0..(LastSize - 1) :
                  memory[ROOT_REGISTER_ADDRESS + i] = file.bytes[i + 1]

\* C2: a call with an image of more than 3584 bytes never succeeds and the
\* caller receives RomTooLargeError.
C2_TooLargeRejected ==
    (outcome # "constructed" /\ file.exists /\ LastSize > ProgramCapacity)
        => /\ outcome = "threw"
           /\ escaped = "RomTooLargeError"

\* C3: a call with an image of zero bytes fails and the caller receives
\* RomNoDataError, and RomNoDataError is received for no other image length.
C3_EmptyRejected ==
    /\ CalledWith(0) => (outcome = "threw" /\ escaped = "RomNoDataError")
    /\ escaped = "RomNoDataError" => CalledWith(0)

\* C5: in every state reached by construction and any calls of LoadROM, each
\* byte of 0x000..0x1FF holds the value it had right after construction.
C5_ReservedRegionKept ==
    \A a \in 0..(ROOT_REGISTER_ADDRESS - 1) :
        memory[a] = LoadFontSet(ZeroMemory, 0)[a]

\* C6: right after construction memory[0x50 + i] = FONT_SET[i] for every
\* i in 0..79 and every other byte of memory is zero.
C6_FontSetPreloaded ==
    outcome = "constructed"
        => \A a \in Addresses :
               memory[a] =
                   IF a \in FONT_SET_START_ADDRESS..(FONT_SET_START_ADDRESS + FONT_SET_SIZE_BYTES - 1)
                   THEN FONT_SET[a - FONT_SET_START_ADDRESS + 1]
                   ELSE 0

\* C7 as stated: after a successful call with an image of S bytes every byte
\* at an address >= 0x200 + S is zero, whatever calls came before.
C7_TailZero ==
    outcome = "loaded"
        => \A a \in (ROOT_REGISTER_ADDRESS + LastSize)..(MEMORY_FOOTPRINT - 1) :
               memory[a] = 0

\* C7 amended: a successful call with an image of S bytes leaves every byte
\* at an address >= 0x200 + S at the value it had before the call.
C7_TailKept ==
    [][outcome' = "loaded"
          => \A a \in (ROOT_REGISTER_ADDRESS + Len(file'.bytes))..(MEMORY_FOOTPRINT - 1) :
                 memory'[a] = memory[a]]_vars

\* a successful load after which a byte at an address >= 0x200 + S still
\* holds a non-zero byte of an earlier, longer image
C7_Witness ==
    /\ outcome = "loaded"
    /\ \E a \in (ROOT_REGISTER_ADDRESS + LastSize)..(MEMORY_FOOTPRINT - 1) : memory[a] # 0

\* C8: a call that fails with an exception leaves memory, registers, index
\* register, program counter, stack, display and timers as they were.
C8_FailedLoadKeepsState ==
    [][outcome' = "threw" => machine' = machine]_vars

\* a too-large image rejected after an earlier image was loaded
C8_Witness ==
    /\ outcome = "threw"
    /\ thrown = "RomTooLargeError"
    /\ memory[0] # 0

\* C9: every offset a call writes lies in 0..4095, whether the call succeeds
\* or fails.
C9_WritesInBounds ==
    \A a \in written : a >= 0 /\ a <= MEMORY_FOOTPRINT - 1

\* a load of the largest accepted image, which writes the last byte of memory
C9_Witness ==
    /\ outcome = "loaded"
    /\ LastSize = MEMORY_FOOTPRINT
    /\ (MEMORY_FOOTPRINT - 1) \in written
    /\ memory[MEMORY_FOOTPRINT - 1] = file.bytes[MEMORY_FOOTPRINT]

\* C10: the sixteen registers, the index register, the stack, the stack
\* pointer, both timers and every display cell are zero after construction
\* and after any calls of LoadROM.
C10_RestOfMachineZero ==
    /\ \A r \in 0..15 : registers[r] = 0
    /\ indexRegister = 0
    /\ \A s \in 0..(STACK_SIZE - 1) : stack[s] = 0
    /\ stackPointer = 0
    /\ delayTimer = 0
    /\ soundTimer = 0
    /\ \A c \in 0..(CHIP8_DISPAY_WIDTH * CHIP8_DISPLAY_HEIGHT - 1) : displayMemory[c] = 0

\* memory wholly overwritten by a 4096-byte image, then a failed call
C10_Witness ==
    /\ outcome = "threw"
    /\ memory[MEMORY_FOOTPRINT - 1] # 0
    /\ registers[15] = 0

====
